---------------------------- MODULE Spec2Model ----------------------------
(***************************************************************************)
(* Model of deduplicator_anki/__init__.py: the DuplicateTaggerWindow       *)
(* settings handlers and the duplicate tagging run (_on_ok,                *)
(* _tag_duplicates, _group_duplicates, _apply_tag_to_duplicates).          *)
(*                                                                         *)
(* The record store (mw.col) is the environment.  Its notes are a fixed    *)
(* table; every getNote / flush / findNotes call of a run either succeeds  *)
(* or raises.  The host is single-threaded: while a run is in progress no  *)
(* UI handler is dispatched.  Writing config.json is taken to succeed.     *)
(***************************************************************************)
EXTENDS Integers, Sequences, FiniteSets, TLC

\* ------------------------------------------------------------ constants
COMBINE_ALL_OPTION == "Combine All Keys"
DEFAULT_TAG_NAME == "duplicate-card"

\* Longest identifier list the store resolves a filter to.
MaxLen == 4

\* ---------------------------------------------------------- record store
\* The notes of the collection: 1 and 2 are identical, 3 is of another note
\* type (no Front field) sharing the Back value, 4 equals 1 but has no cards.
NoteIds == {1, 2, 3, 4}

NoteFields(id) ==
    CASE id = 3 -> << [name |-> "Text",  value |-> "B"], [name |-> "Back", value |-> "X"] >>
      [] OTHER  -> << [name |-> "Front", value |-> "A"], [name |-> "Back", value |-> "X"] >>

NoteCards(id) == IF id = 4 THEN 0 ELSE 1

NoteKeys(id) == [i \in 1..Len(NoteFields(id)) |-> NoteFields(id)[i].name]

NoteValues(id) == [i \in 1..Len(NoteFields(id)) |-> NoteFields(id)[i].value]

\* Ordered identifier lists a filter may resolve to (repeats allowed).
IdLists == UNION {[1..n -> NoteIds] : n \in 0..MaxLen}

\* Filter expressions: empty, malformed, and two well-formed ones.
EmptyFilter == ""
BadFilter == "bad("
GoodFilters == {"f1", "f2"}

\* Texts typed into the tag input.
TagTexts == {"", " ", " dup "}

Strip(text) ==
    CASE text = " "     -> ""
      [] text = " dup " -> "dup"
      [] OTHER          -> text

\* ------------------------------------------------------------- helpers
SeqRange(s) == {s[i] : i \in 1..Len(s)}

\* list.index: position of the first occurrence
IndexOf(s, x) == CHOOSE i \in 1..Len(s) : s[i] = x /\ \A j \in 1..(i-1) : s[j] # x

RECURSIVE InsertSorted(_, _)
InsertSorted(s, x) ==
    IF s = <<>> THEN <<x>>
    ELSE IF x < Head(s) THEN <<x>> \o s
    ELSE <<Head(s)>> \o InsertSorted(Tail(s), x)

RECURSIVE Sorted(_)
Sorted(s) == IF s = <<>> THEN <<>> ELSE InsertSorted(Sorted(SubSeq(s, 1, Len(s) - 1)), s[Len(s)])

\* `x or DEFAULT_TAG_NAME`
OrDefaultTag(x) == IF x = "" THEN DEFAULT_TAG_NAME ELSE x

\* _get_dedup_key: None is [isNone |-> TRUE], a tuple t is [isNone |-> FALSE, t |-> t]
NoneKey == [isNone |-> TRUE, t |-> <<>>]

SomeKey(t) == [isNone |-> FALSE, t |-> t]

GetDedupKey(sel, id) ==
    IF sel = COMBINE_ALL_OPTION THEN SomeKey(NoteValues(id))
    ELSE IF sel \in SeqRange(NoteKeys(id))
         THEN SomeKey(<< NoteValues(id)[IndexOf(NoteKeys(id), sel)] >>)
         ELSE NoneKey

\* the grouping loop without its check of note.cards()
HasCardsUnchecked(id) == TRUE

\* `if not note.cards(): continue`
HasCards(id) == NoteCards(id) > 0

\* duplicates[dedup_key].append(note_id) on a defaultdict(list); the dict
\* keeps its keys in insertion order
AppendToBucket(dups, key, id) ==
    IF \E b \in 1..Len(dups) : dups[b].key = key
    THEN [b \in 1..Len(dups) |->
            IF dups[b].key = key THEN [dups[b] EXCEPT !.ids = Append(@, id)] ELSE dups[b]]
    ELSE Append(dups, [key |-> key, ids |-> <<id>>])

\* `if len(note_ids_list) <= 1: continue`: the first bucket at or after b
\* that the tagging loop enters
RECURSIVE NextBucket(_, _)
NextBucket(dups, b) ==
    IF b > Len(dups) THEN b
    ELSE IF Len(dups[b].ids) <= 1 THEN NextBucket(dups, b + 1)
    ELSE b

\* note_ids_list_sorted[1:], as positions 2..n of the sorted list
ToTag(ids) == SubSeq(Sorted(ids), 2, Len(ids))

\* field_names_for_note_ids(note_ids)
FieldNamesOf(ids) == UNION {SeqRange(NoteKeys(ids[i])) : i \in 1..Len(ids)}

\* ------------------------------------------------------------ settings
DocKeys == {"ankiFilter", "dedupKey", "tagName", "selectedKey", "selectedMethod"}

DEFAULT_CONFIG ==
    [ankiFilter |-> "", dedupKey |-> COMBINE_ALL_OPTION, tagName |-> DEFAULT_TAG_NAME]

Has(d, k) == k \in DOMAIN d

\* _load_config: kind is "missing", "corrupt" or "dict"
LoadConfig(kind, d) ==
    LET c0 == DEFAULT_CONFIG
        c1 == IF kind # "dict" THEN c0
              ELSE [k \in DOMAIN c0 |->
                      IF Has(d, k) THEN d[k]
                      ELSE IF k = "dedupKey" /\ Has(d, "selectedKey") THEN d["selectedKey"]
                      ELSE IF k = "tagName" /\ Has(d, "selectedMethod") THEN DEFAULT_TAG_NAME
                      ELSE c0[k]]
        c2 == IF c1.tagName = "" THEN [c1 EXCEPT !.tagName = DEFAULT_TAG_NAME] ELSE c1
    IN  IF c2.dedupKey = "" THEN [c2 EXCEPT !.dedupKey = COMBINE_ALL_OPTION] ELSE c2

\* _save_config: the document written
SavedConfig(filter, key, tag) ==
    [ankiFilter |-> filter, dedupKey |-> key, tagName |-> OrDefaultTag(tag)]


\* ---------------------------------------------------------------- state
VARIABLES
    window,        \* "closed" | "open": mw.duplicateTaggerWindow
    doc_kind,      \* config.json: "missing" | "corrupt" | "dict"
    doc,           \* config.json contents when doc_kind = "dict"
    anki_filter,   \* self.anki_filter
    selected_key,  \* self.selected_key
    tag_name,      \* self.tag_name
    field_names,   \* self.field_names
    combo_text,    \* self.key_combo.currentText()
    resolve,       \* the store: what findNotes returns for each well-formed filter
    tags,          \* the store: the persisted tags of each note
    pc,            \* position of the run started by _on_ok
    note_ids,      \* _tag_duplicates: note_ids
    gi,            \* _group_duplicates: position of the loop in note_ids
    duplicates,    \* the dict built by _group_duplicates, in insertion order
    tag_to_apply,  \* _tag_duplicates: tag_to_apply
    bi,            \* _apply_tag_to_duplicates: bucket the outer loop is at
    ti,            \* _apply_tag_to_duplicates: position in note_ids_list_sorted[1:]
    cur,           \* the note object fetched by the tagging loop
    total_tagged,  \* _apply_tag_to_duplicates: total_tagged
    trace,         \* record store calls made by the current run, in order
    shown,         \* the message of the showInfo dialog the run is showing
    tags0,         \* history: the store's tags when the current run started
    prev,          \* history: the last completed run (groups, label, count, tags)
    base           \* history: the store's tags at start-up

vars == << window, doc_kind, doc, anki_filter, selected_key, tag_name, field_names,
           combo_text, resolve, tags, pc, note_ids, gi, duplicates, tag_to_apply,
           bi, ti, cur, total_tagged, trace, shown, tags0, prev, base >>

settings == << anki_filter, selected_key, tag_name, field_names, combo_text >>
locals == << note_ids, gi, duplicates, tag_to_apply, bi, ti, cur, total_tagged >>

\* total_tagged before `total_tagged = 0` has run
NoCount == 0 - 1

NoCur == [id |-> 0, tags |-> {}]
NoMsg == [kind |-> "none", count |-> NoCount, label |-> ""]
NoPrev == [valid |-> FALSE, dups |-> <<>>, label |-> "", count |-> NoCount,
           tags |-> [i \in NoteIds |-> {}]]

Msg(kind) == [kind |-> kind, count |-> NoCount, label |-> ""]

\* f"Total: {total_tagged} notes tagged as '{tag_to_apply}'"
Summary(count, label) == [kind |-> "Total", count |-> count, label |-> label]

Call(op, phase, id, ok) == [op |-> op, phase |-> phase, id |-> id, ok |-> ok]

\* The combo box items: the sentinel, then sorted(self.field_names)
FieldOrder == << "Back", "Front", "Text" >>

ComboItems(fields) == <<COMBINE_ALL_OPTION>> \o SelectSeq(FieldOrder, LAMBDA f : f \in fields)

\* _update_field_list: the values of field_names, selected_key and the combo
\* box's current text it leaves
UpdateFieldList(filter, sel, fields, combo) ==
    IF filter = EmptyFilter \/ filter = BadFilter
    THEN [fields |-> fields, sel |-> sel, combo |-> combo]
    ELSE LET fn == FieldNamesOf(resolve[filter])
         IN  IF sel \in fn \/ sel = COMBINE_ALL_OPTION
             THEN [fields |-> fn, sel |-> sel, combo |-> sel]
             ELSE [fields |-> fn, sel |-> COMBINE_ALL_OPTION, combo |-> COMBINE_ALL_OPTION]

ClearLocals ==
    /\ note_ids' = <<>>
    /\ gi' = 0
    /\ duplicates' = <<>>
    /\ tag_to_apply' = ""
    /\ bi' = 0
    /\ ti' = 0
    /\ cur' = NoCur
    /\ total_tagged' = NoCount
    /\ trace' = <<>>
    /\ shown' = NoMsg
    /\ tags0' = tags'

\* The window object is gone: its attributes hold nothing.
DropWindow ==
    /\ window' = "closed"
    /\ anki_filter' = ""
    /\ selected_key' = COMBINE_ALL_OPTION
    /\ tag_name' = ""
    /\ field_names' = {}
    /\ combo_text' = COMBINE_ALL_OPTION

\* ------------------------------------------------------ window lifecycle
\* show_window: DuplicateTaggerWindow.__init__ with _load_config and
\* _initialize_values (signals blocked, so nothing is saved)
ShowWindow ==
    /\ pc = "idle"
    /\ LET config == LoadConfig(doc_kind, doc)
           u == IF config.ankiFilter # ""
                THEN UpdateFieldList(config.ankiFilter, config.dedupKey, {}, COMBINE_ALL_OPTION)
                ELSE [fields |-> {}, sel |-> config.dedupKey, combo |-> COMBINE_ALL_OPTION]
       IN  /\ window' = "open"
           /\ anki_filter' = config.ankiFilter
           /\ selected_key' = u.sel
           /\ tag_name' = config.tagName
           /\ field_names' = u.fields
           /\ combo_text' = u.combo
    /\ UNCHANGED << doc_kind, doc, resolve, base, tags, pc, locals, trace, shown, tags0, prev >>

\* Escape, Ctrl+W or Cancel: self.close()
CloseWindow ==
    /\ pc = "idle"
    /\ window = "open"
    /\ DropWindow
    /\ UNCHANGED << doc_kind, doc, resolve, base, tags, pc, locals, trace, shown, tags0, prev >>

\* ------------------------------------------------------------ UI handlers
\* textChanged of the filter input
OnFilterChanged(text) ==
    /\ pc = "idle"
    /\ window = "open"
    /\ text # anki_filter
    /\ anki_filter' = text
    /\ prev' = NoPrev
    /\ UNCHANGED << window, doc_kind, doc, selected_key, tag_name, field_names, combo_text,
                    resolve, base, tags, pc, locals, trace, shown, tags0 >>

\* editingFinished of the filter input: _save_config, then _update_field_list
OnFilterFinished ==
    /\ pc = "idle"
    /\ window = "open"
    /\ doc_kind' = "dict"
    /\ doc' = SavedConfig(anki_filter, selected_key, tag_name)
    /\ LET u == UpdateFieldList(anki_filter, selected_key, field_names, combo_text)
       IN  /\ field_names' = u.fields
           /\ selected_key' = u.sel
           /\ combo_text' = u.combo
    /\ prev' = NoPrev
    /\ UNCHANGED << window, anki_filter, tag_name, resolve, base, tags, pc, locals, trace, shown, tags0 >>

\* currentIndexChanged of the key combo box (emitted for a user's choice of
\* another item; programmatic changes are made with signals blocked)
OnKeyChangedIndex(index) ==
    /\ pc = "idle"
    /\ window = "open"
    /\ index >= 0
    /\ index < Len(ComboItems(field_names))
    /\ ComboItems(field_names)[index + 1] # combo_text
    /\ selected_key' = ComboItems(field_names)[index + 1]
    /\ combo_text' = ComboItems(field_names)[index + 1]
    /\ doc_kind' = "dict"
    /\ doc' = SavedConfig(anki_filter, selected_key', tag_name)
    /\ prev' = NoPrev
    /\ UNCHANGED << window, anki_filter, tag_name, field_names, resolve, base, tags, pc, locals,
                    trace, shown, tags0 >>

\* textChanged of the tag input
OnTagChangedLive(text) ==
    /\ pc = "idle"
    /\ window = "open"
    /\ tag_name' = Strip(text)
    /\ prev' = NoPrev
    /\ UNCHANGED << window, doc_kind, doc, anki_filter, selected_key, field_names, combo_text,
                    resolve, base, tags, pc, locals, trace, shown, tags0 >>

\* editingFinished of the tag input; setText re-enters _on_tag_changed_live
OnTagChanged ==
    /\ pc = "idle"
    /\ window = "open"
    /\ tag_name' = Strip(OrDefaultTag(tag_name))
    /\ doc_kind' = "dict"
    /\ doc' = SavedConfig(anki_filter, selected_key, tag_name')
    /\ prev' = NoPrev
    /\ UNCHANGED << window, anki_filter, selected_key, field_names, combo_text, resolve, base, tags,
                    pc, locals, trace, shown, tags0 >>

\* ---------------------------------------------------------------- the run
\* _on_ok without its check of the filter
OnOkUnchecked ==
    /\ pc = "idle"
    /\ window = "open"
    /\ trace' = <<>>
    /\ tags0' = tags
    /\ shown' = NoMsg
    /\ pc' = "collect"
    /\ UNCHANGED << window, doc_kind, doc, settings, resolve, base, tags, locals, prev >>

\* _on_ok, up to the call of _tag_duplicates
OnOk ==
    /\ pc = "idle"
    /\ window = "open"
    /\ trace' = <<>>
    /\ tags0' = tags
    /\ IF anki_filter = EmptyFilter
       THEN /\ shown' = Msg("No Anki filter specified")
            /\ pc' = "dialog_err"
       ELSE /\ shown' = NoMsg
            /\ pc' = "collect"
    /\ UNCHANGED << window, doc_kind, doc, settings, resolve, base, tags, locals, prev >>

\* a failed filter resolution that still refreshes the views
CollectFailResets ==
    /\ pc = "collect"
    /\ anki_filter = BadFilter
    /\ trace' = trace \o << Call("findNotes", "collect", 0, FALSE), Call("reset", "finish", 0, TRUE) >>
    /\ shown' = Msg("Error executing filter")
    /\ pc' = "dialog_err"
    /\ UNCHANGED << window, doc_kind, doc, settings, resolve, base, tags, locals, tags0, prev >>

\* _collect_note_ids: findNotes raises on a malformed filter
CollectFail ==
    /\ pc = "collect"
    /\ anki_filter = BadFilter
    /\ trace' = Append(trace, Call("findNotes", "collect", 0, FALSE))
    /\ shown' = Msg("Error executing filter")
    /\ pc' = "dialog_err"
    /\ UNCHANGED << window, doc_kind, doc, settings, resolve, base, tags, locals, tags0, prev >>

\* _collect_note_ids: findNotes returns the identifier list
CollectOk ==
    /\ pc = "collect"
    /\ anki_filter # BadFilter
    /\ trace' = Append(trace, Call("findNotes", "collect", 0, TRUE))
    /\ note_ids' = resolve[anki_filter]
    /\ gi' = 1
    /\ duplicates' = <<>>
    /\ pc' = "group"
    /\ UNCHANGED << window, doc_kind, doc, settings, resolve, base, tags, tag_to_apply, bi, ti, cur,
                    total_tagged, shown, tags0, prev >>

\* one iteration of the loop of _group_duplicates
GroupedWith(dups, sel, id) ==
    IF ~HasCards(id) THEN dups
    ELSE IF GetDedupKey(sel, id) = NoneKey THEN dups
    ELSE AppendToBucket(dups, GetDedupKey(sel, id), id)

GroupFetchOk ==
    /\ pc = "group"
    /\ gi <= Len(note_ids)
    /\ trace' = Append(trace, Call("getNote", "group", note_ids[gi], TRUE))
    /\ duplicates' = GroupedWith(duplicates, selected_key, note_ids[gi])
    /\ gi' = gi + 1
    /\ UNCHANGED << window, doc_kind, doc, settings, resolve, base, tags, pc, note_ids, tag_to_apply,
                    bi, ti, cur, total_tagged, shown, tags0, prev >>

\* a grouping loop that skips a note it cannot fetch
GroupFetchFailSkips ==
    /\ pc = "group"
    /\ gi <= Len(note_ids)
    /\ trace' = Append(trace, Call("getNote", "group", note_ids[gi], FALSE))
    /\ gi' = gi + 1
    /\ UNCHANGED << window, doc_kind, doc, settings, resolve, base, tags, pc, note_ids, duplicates,
                    tag_to_apply, bi, ti, cur, total_tagged, shown, tags0, prev >>

\* getNote raises inside _group_duplicates: caught by _tag_duplicates
GroupFetchFail ==
    /\ pc = "group"
    /\ gi <= Len(note_ids)
    /\ trace' = Append(trace, Call("getNote", "group", note_ids[gi], FALSE))
    /\ shown' = Msg("Error while locating duplicates")
    /\ pc' = "dialog_err"
    /\ UNCHANGED << window, doc_kind, doc, settings, resolve, base, tags, locals, tags0, prev >>

\* _group_duplicates returns; _apply_tag_to_duplicates starts
GroupDone ==
    /\ pc = "group"
    /\ gi > Len(note_ids)
    /\ tag_to_apply' = OrDefaultTag(tag_name)
    /\ total_tagged' = 0
    /\ bi' = NextBucket(duplicates, 1)
    /\ ti' = 1
    /\ pc' = IF NextBucket(duplicates, 1) > Len(duplicates) THEN "reset" ELSE "tag_fetch"
    /\ UNCHANGED << window, doc_kind, doc, settings, resolve, base, tags, note_ids, gi, duplicates,
                    cur, trace, shown, tags0, prev >>

\* the identifier the tagging loop is at
CurrentId == ToTag(duplicates[bi].ids)[ti]

\* note = mw.col.getNote(note_id)
TagFetchOk ==
    /\ pc = "tag_fetch"
    /\ trace' = Append(trace, Call("getNote", "tag", CurrentId, TRUE))
    /\ cur' = [id |-> CurrentId, tags |-> tags[CurrentId]]
    /\ pc' = "tag_add"
    /\ UNCHANGED << window, doc_kind, doc, settings, resolve, base, tags, note_ids, gi, duplicates,
                    tag_to_apply, bi, ti, total_tagged, shown, tags0, prev >>

\* getNote raises inside _apply_tag_to_duplicates: nothing catches it
TagFetchFail ==
    /\ pc = "tag_fetch"
    /\ trace' = Append(trace, Call("getNote", "tag", CurrentId, FALSE))
    /\ pc' = "raised"
    /\ UNCHANGED << window, doc_kind, doc, settings, resolve, base, tags, locals, shown, tags0, prev >>

\* note.addTag(tag_to_apply), on the fetched object
AddTag(noteTags, label) == noteTags \cup {label}

TagAdd ==
    /\ pc = "tag_add"
    /\ trace' = Append(trace, Call("addTag", "tag", cur.id, TRUE))
    /\ cur' = [cur EXCEPT !.tags = AddTag(@, tag_to_apply)]
    /\ pc' = "tag_flush"
    /\ UNCHANGED << window, doc_kind, doc, settings, resolve, base, tags, note_ids, gi, duplicates,
                    tag_to_apply, bi, ti, total_tagged, shown, tags0, prev >>

\* a count of the first application of the label only
CountedIfNew(total, already) == IF already THEN total ELSE total + 1

\* total_tagged += 1
Counted(total, already) == total + 1

\* a tagging loop that leaves the write for later
FlushedNothing(store, note) == store

\* what note.flush() leaves in the store
Flushed(store, note) == [store EXCEPT ![note.id] = note.tags]

\* note.flush(); total_tagged += 1; then the loops advance
TagFlushOk ==
    /\ pc = "tag_flush"
    /\ trace' = Append(trace, Call("flush", "tag", cur.id, TRUE))
    /\ tags' = Flushed(tags, cur)
    /\ total_tagged' = Counted(total_tagged, tag_to_apply \in tags[cur.id])
    /\ IF ti < Len(ToTag(duplicates[bi].ids))
       THEN /\ ti' = ti + 1
            /\ bi' = bi
            /\ pc' = "tag_fetch"
       ELSE /\ ti' = 1
            /\ bi' = NextBucket(duplicates, bi + 1)
            /\ pc' = IF NextBucket(duplicates, bi + 1) > Len(duplicates)
                     THEN "reset" ELSE "tag_fetch"
    /\ UNCHANGED << window, doc_kind, doc, settings, resolve, base, note_ids, gi, duplicates,
                    tag_to_apply, cur, shown, tags0, prev >>

\* note.flush() raises: nothing catches it, nothing was written
TagFlushFail ==
    /\ pc = "tag_flush"
    /\ trace' = Append(trace, Call("flush", "tag", cur.id, FALSE))
    /\ pc' = "raised"
    /\ UNCHANGED << window, doc_kind, doc, settings, resolve, base, tags, locals, shown, tags0, prev >>

\* _tag_duplicates: the message, mw.reset(), return; _on_ok: showInfo(tagged)
ResetViews ==
    /\ pc = "reset"
    /\ trace' = Append(trace, Call("reset", "finish", 0, TRUE))
    /\ shown' = Summary(total_tagged, tag_to_apply)
    /\ pc' = "dialog_ok"
    /\ UNCHANGED << window, doc_kind, doc, settings, resolve, base, tags, locals, tags0, prev >>

\* the summary dialog is dismissed: self.close()
DismissOk ==
    /\ pc = "dialog_ok"
    /\ prev' = [valid |-> TRUE, dups |-> duplicates, label |-> tag_to_apply,
                count |-> total_tagged, tags |-> tags]
    /\ UNCHANGED << doc_kind, doc, resolve, base, tags >>
    /\ DropWindow
    /\ ClearLocals
    /\ pc' = "idle"

\* an error dialog is dismissed: _on_ok returns, the window stays
DismissErr ==
    /\ pc = "dialog_err"
    /\ UNCHANGED << window, doc_kind, doc, settings, resolve, base, tags, prev >>
    /\ ClearLocals
    /\ pc' = "idle"

\* the exception has left _on_ok: the event loop goes on, the window stays
Unwind ==
    /\ pc = "raised"
    /\ UNCHANGED << window, doc_kind, doc, settings, resolve, base, tags, prev >>
    /\ ClearLocals
    /\ pc' = "idle"

\* the host process dies during a run: only the store and config.json remain
Crash ==
    /\ pc \notin {"idle", "dialog_ok", "dialog_err", "raised"}
    /\ UNCHANGED << doc_kind, doc, resolve, base, tags, prev >>
    /\ DropWindow
    /\ ClearLocals
    /\ pc' = "idle"

\* ------------------------------------------------------- specifications
\* config.json documents found at start-up
InitDocs ==
    { [ankiFilter |-> "", dedupKey |-> "Foo"],
      [ankiFilter |-> "f1", dedupKey |-> "Foo", tagName |-> ""],
      [ankiFilter |-> BadFilter, dedupKey |-> "", tagName |-> "dup"],
      [ankiFilter |-> "f2", selectedKey |-> "Text", selectedMethod |-> "delete"],
      [selectedKey |-> "", tagName |-> "dup"] }

InitCommon ==
    /\ window = "closed"
    /\ anki_filter = ""
    /\ selected_key = COMBINE_ALL_OPTION
    /\ tag_name = ""
    /\ field_names = {}
    /\ combo_text = COMBINE_ALL_OPTION
    /\ pc = "idle"
    /\ note_ids = <<>>
    /\ gi = 0
    /\ duplicates = <<>>
    /\ tag_to_apply = ""
    /\ bi = 0
    /\ ti = 0
    /\ cur = NoCur
    /\ total_tagged = NoCount
    /\ trace = <<>>
    /\ shown = NoMsg
    /\ tags0 = tags
    /\ base = tags
    /\ prev = NoPrev

\* The whole program over a small store: f1 finds the notes 2, 1, 4 and f2
\* the note 3.
Init ==
    /\ \/ doc_kind \in {"missing", "corrupt"} /\ doc = <<>>
       \/ doc_kind = "dict" /\ doc \in InitDocs
    /\ resolve = [f \in GoodFilters |-> IF f = "f1" THEN <<2, 1, 4>> ELSE <<3>>]
    /\ tags = [i \in NoteIds |-> {}]
    /\ InitCommon

RunSteps ==
    \/ OnOk
    \/ CollectFail
    \/ CollectOk
    \/ GroupFetchOk
    \/ GroupFetchFail
    \/ GroupDone
    \/ TagFetchOk
    \/ TagFetchFail
    \/ TagAdd
    \/ TagFlushOk
    \/ TagFlushFail
    \/ ResetViews
    \/ DismissOk
    \/ DismissErr
    \/ Unwind
    \/ Crash

Next ==
    \/ ShowWindow
    \/ CloseWindow
    \/ \E text \in {EmptyFilter, BadFilter} \cup GoodFilters : OnFilterChanged(text)
    \/ OnFilterFinished
    \/ \E index \in 0..Len(FieldOrder) : OnKeyChangedIndex(index)
    \/ \E text \in TagTexts : OnTagChangedLive(text)
    \/ OnTagChanged
    \/ RunSteps

Spec == Init /\ [][Next]_vars

\* The run over every identifier list the store may resolve the filter to:
\* the settings are those of config.json and are not edited.
RunKeys == {COMBINE_ALL_OPTION, "Front", "Back", "Text"}

InitRun ==
    /\ doc_kind = "dict"
    /\ \E f \in {EmptyFilter, BadFilter, "f1"}, k \in RunKeys :
          doc = [ankiFilter |-> f, dedupKey |-> k, tagName |-> "dup"]
    /\ \E ids \in IdLists : resolve = [f \in GoodFilters |-> IF f = "f1" THEN ids ELSE <<>>]
    /\ \/ tags = [i \in NoteIds |-> {}]
       \/ tags = [i \in NoteIds |-> IF i \in {1, 2} THEN {"leech"} ELSE {}]
    /\ InitCommon

NextRun ==
    \/ ShowWindow
    \/ RunSteps

SpecRun == InitRun /\ [][NextRun]_vars

\* ------------------------------------------------------------- properties
RunPcs == {"collect", "group", "tag_fetch", "tag_add", "tag_flush", "reset", "dialog_ok",
           "dialog_err", "raised"}

\* _group_duplicates has returned its mapping
Grouped == pc \in {"tag_fetch", "tag_add", "tag_flush", "reset", "dialog_ok", "raised"}

\* _apply_tag_to_duplicates has returned
Applied == pc \in {"reset", "dialog_ok"}

Calls(op) == {k \in 1..Len(trace) : trace[k].op = op}

FailedCalls == {k \in 1..Len(trace) : ~trace[k].ok}

\* the successful persist writes of the run, in order
Writes == SelectSeq(trace, LAMBDA c : c.op = "flush" /\ c.ok)

WrittenIds == {Writes[k].id : k \in 1..Len(Writes)}

RECURSIVE SumTail(_, _)
SumTail(dups, b) ==
    IF b > Len(dups) THEN 0
    ELSE (IF Len(dups[b].ids) >= 2 THEN Len(dups[b].ids) - 1 ELSE 0) + SumTail(dups, b + 1)

\* every member but the smallest of every bucket of two or more
Targets(dups) ==
    UNION {IF Len(dups[b].ids) >= 2 THEN SeqRange(ToTag(dups[b].ids)) ELSE {} : b \in 1..Len(dups)}

LabelledWith(store, ids, label) ==
    [i \in NoteIds |-> IF i \in ids THEN store[i] \cup {label} ELSE store[i]]

\* C1: once _apply_tag_to_duplicates has returned, in every bucket of n >= 2
\* identifiers, sorted as i0..i(n-1), the call has not labelled i0, has
\* labelled and persisted each of i1..i(n-1), and the count is the sum of
\* n-1 over these buckets; claimed for every identifier list, repeats included.
C1_CanonicalNeverLabelled ==
    Applied =>
        /\ \A b \in 1..Len(duplicates) :
              Len(duplicates[b].ids) >= 2 =>
                 LET s == Sorted(duplicates[b].ids)
                 IN  /\ \A k \in 1..Len(trace) :
                           trace[k].op \in {"addTag", "flush"} => trace[k].id # s[1]
                     /\ \A j \in 2..Len(s) :
                           /\ tag_to_apply \in tags[s[j]]
                           /\ s[j] \in WrittenIds
        /\ total_tagged = SumTail(duplicates, 1)

\* C2: the mapping of _group_duplicates holds identifier i under key K exactly
\* when i's note has a card and its dedup key is K; notes without cards or
\* with key None are in no bucket, no identifier is in two buckets, and a
\* bucket keeps the input order.  Stated of the part of the list processed
\* so far, hence of the whole list once the mapping is returned.
ProcessedIds == IF pc = "group" THEN SubSeq(note_ids, 1, gi - 1) ELSE note_ids

C2_GroupsExact ==
    (pc = "group" \/ Grouped) =>
        /\ \A b \in 1..Len(duplicates) :
              /\ duplicates[b].key # NoneKey
              /\ duplicates[b].ids # <<>>
              /\ duplicates[b].ids =
                    SelectSeq(ProcessedIds,
                              LAMBDA i : NoteCards(i) >= 1
                                         /\ GetDedupKey(selected_key, i) = duplicates[b].key)
        /\ \A k \in 1..Len(ProcessedIds) :
              LET i == ProcessedIds[k]
              IN  (\E b \in 1..Len(duplicates) : i \in SeqRange(duplicates[b].ids))
                     <=> (NoteCards(i) >= 1 /\ GetDedupKey(selected_key, i) # NoneKey)
        /\ \A b1, b2 \in 1..Len(duplicates) :
              b1 # b2 => /\ duplicates[b1].key # duplicates[b2].key
                         /\ SeqRange(duplicates[b1].ids) \cap SeqRange(duplicates[b2].ids) = {}

C2_Witness ==
    /\ pc = "tag_fetch"
    /\ selected_key = "Front"
    /\ note_ids = <<2, 3, 4, 1>>
    /\ duplicates = << [key |-> SomeKey(<<"A">>), ids |-> <<2, 1>>] >>

\* C3: a tagging pass over the same groups with the same label as the pass
\* completed just before returns the same count and leaves the same labels,
\* and no step removes a label from a note.
C3_Idempotent ==
    /\ [](( /\ pc = "dialog_ok"
            /\ prev.valid
            /\ prev.dups = duplicates
            /\ prev.label = tag_to_apply )
          => (total_tagged = prev.count /\ tags = prev.tags))
    /\ [][\A i \in NoteIds : tags[i] \subseteq tags'[i]]_vars

C3_Witness ==
    /\ pc = "dialog_ok"
    /\ prev.valid
    /\ prev.dups = duplicates
    /\ prev.label = tag_to_apply
    /\ prev.count >= 2
    /\ \E i \in NoteIds : "leech" \in tags[i] /\ tag_to_apply \in tags[i]

\* C4: a run in which resolving the filter failed, or a fetch of the grouping
\* loop failed, has labelled and persisted nothing: the store's tags are
\* those of the start of the run and no count exists.
C4_AbortBeforeTaggingWritesNothing ==
    (\E k \in FailedCalls : trace[k].phase \in {"collect", "group"}) =>
        /\ tags = tags0
        /\ total_tagged = NoCount
        /\ Calls("addTag") = {}
        /\ Calls("flush") = {}

C4_Witness ==
    /\ pc = "dialog_err"
    /\ shown.kind = "Error while locating duplicates"
    /\ Len(trace) = 4
    /\ Len(duplicates) = 1
    /\ Len(duplicates[1].ids) = 2

\* C5: a run in which a store call failed ends with one message shown to the
\* caller: it is at the error dialog, never unwinding with an exception and
\* never going on as if nothing had happened.
C5_EveryErrorReported ==
    FailedCalls # {} => (pc = "dialog_err" /\ shown.kind # "none")

\* C6: _on_ok with an empty filter shows 'No Anki filter specified' and makes
\* no store call; the tags are untouched, and the window is open while the
\* message is shown and after it is dismissed.
C6_EmptyFilterRejected ==
    /\ [][(pc = "idle" /\ pc' # "idle" /\ anki_filter = EmptyFilter) =>
             /\ pc' = "dialog_err"
             /\ shown'.kind = "No Anki filter specified"
             /\ trace' = <<>>
             /\ window' = "open"
             /\ tags' = tags]_vars
    /\ [][(shown.kind = "No Anki filter specified") =>
             (pc' = "idle" /\ window' = "open" /\ tags' = tags)]_vars
    /\ [](shown.kind = "No Anki filter specified" =>
             (pc = "dialog_err" /\ trace = <<>> /\ window = "open" /\ tags = tags0))

C6_Witness ==
    /\ pc = "dialog_err"
    /\ shown.kind = "No Anki filter specified"
    /\ anki_filter = EmptyFilter

\* C7: while the grouping and tagging routines run, the label is non-empty
\* and selected_key is non-empty and usable: the sentinel, or a field name
\* of the notes of the current filter.
C7_UsableSettingsAtRun ==
    (pc = "group" \/ Grouped) =>
        /\ OrDefaultTag(tag_name) # ""
        /\ selected_key # ""
        /\ \/ selected_key = COMBINE_ALL_OPTION
           \/ selected_key \in FieldNamesOf(note_ids)

\* C8: in the tagging pass every addTag is followed at once by the flush of
\* the same note, one write per counted note; at every step the store's tags
\* are those of the start of the run plus the label on exactly the notes
\* written so far; and every completed run, also one that follows interrupted
\* runs, ends with the tags an uninterrupted run from the start-up store ends
\* with.
C8_WriteThrough ==
    /\ \A k \in 1..Len(trace) :
          /\ trace[k].op = "addTag" =>
                /\ k > 1
                /\ trace[k-1] = Call("getNote", "tag", trace[k].id, TRUE)
                /\ k < Len(trace) => (trace[k+1].op = "flush" /\ trace[k+1].id = trace[k].id)
          /\ trace[k].op = "flush" => (k > 1 /\ trace[k-1] = Call("addTag", "tag", trace[k].id, TRUE))
    /\ total_tagged # NoCount => total_tagged = Len(Writes)
    /\ pc \in RunPcs => tags = LabelledWith(tags0, WrittenIds, OrDefaultTag(tag_name))
    /\ pc = "dialog_ok" => tags = LabelledWith(base, Targets(duplicates), tag_to_apply)

C8_Witness ==
    /\ pc = "dialog_ok"
    /\ ~prev.valid
    /\ tags0 # base
    /\ tags # tags0
    /\ total_tagged >= 2

\* C9: mw.reset() is called at most once in a run, as the last store call of
\* a run whose tagging pass completed, and in no run with a failed call; the
\* summary is shown only after it, with the number of persist writes of the
\* run and the label applied.
C9_RefreshOnceAfterWrites ==
    /\ Cardinality(Calls("reset")) <= 1
    /\ \A k \in Calls("reset") : k = Len(trace) /\ pc = "dialog_ok" /\ FailedCalls = {}
    /\ pc = "dialog_ok" =>
          /\ Calls("reset") # {}
          /\ \A k \in Calls("flush") : k < Len(trace)
          /\ shown = Summary(Len(Writes), OrDefaultTag(tag_name))
    /\ shown.kind = "Total" => pc = "dialog_ok"
    /\ pc = "reset" => (Calls("reset") = {} /\ total_tagged = Len(Writes))

C9_Witness ==
    /\ pc = "dialog_ok"
    /\ shown.count >= 2
    /\ Len(duplicates) >= 2

\* C10: when _on_filter_finished, _on_key_changed_index or _on_tag_changed has
\* completed, config.json holds the window's anki_filter, selected_key and
\* tag_name (an empty tag_name read as the default it is saved as).
C10_SavedTracksWindow ==
    [][(OnFilterFinished \/ OnTagChanged
        \/ \E index \in 0..Len(FieldOrder) : OnKeyChangedIndex(index)) =>
          /\ doc_kind' = "dict"
          /\ doc' = [ankiFilter |-> anki_filter', dedupKey |-> selected_key',
                     tagName |-> OrDefaultTag(tag_name')]]_vars

==========================================================================
